---- MODULE Spec2Model ----
(***************************************************************************)
(* Progress, achievement and adaptive-difficulty core of the EduTech       *)
(* platform: utils/enhanced_stats.py, utils/achievements.py and the        *)
(* adaptive session of components/adaptive_practice.py.                    *)
(*                                                                         *)
(* Numbers.  Points are Python floats in the source (2 * 1.2 = 2.4); the   *)
(* model keeps them exactly, as integers counted in tenths of a point      *)
(* (PointScale).  Percentages that the source computes by a division       *)
(* (accuracy_rate, overall_progress) are kept as exact fractions           *)
(* [n |-> numerator, d |-> denominator] and compared by cross              *)
(* multiplication.  Dates are day numbers, NoDate stands for None.         *)
(*                                                                         *)
(* utils/achievements.py line 132 nests quotes of the same kind inside an  *)
(* f-string.  The module only loads on an interpreter that accepts this    *)
(* (Python 3.12 and later), and there the expression raises NameError when *)
(* it is evaluated, because no name "achievement" is in scope.  The model  *)
(* is of the program on such an interpreter.                               *)
(***************************************************************************)
EXTENDS Integers, Sequences, FiniteSets, TLC

VARIABLES
    user_stats,        \* st.session_state.user_stats: user id -> stats dict
    today,             \* datetime.now().date(), as a day number
    day_time_points,   \* observer: points given for study time per user on day `today`
    new_achievements,  \* the list last returned by _check_achievements
    adaptive_session,  \* st.session_state.adaptive_session (NoSession when absent)
    calls              \* update_stats calls in flight, one per worker thread

vars == <<user_stats, today, day_time_points, new_achievements, adaptive_session, calls>>

-----------------------------------------------------------------------------
(* Bounds of the model *)

MaxProblems == 10      \* problem_solved events per user
MaxSessions == 5       \* session_completed events per user
EvProblems == 3        \* SpecEvents: problem_solved events per user
EvSessions == 2        \* SpecEvents: session_completed events per user
EvStudyHours == 35     \* SpecEvents: hours of study_time events per user
AdPractice == 5        \* SpecAdaptive: problems solved before the session
MaxAttempts == 6       \* SpecAdaptive: problems attempted in the session
ThreadCalls == 2       \* SpecThreads: update_stats calls per thread
MaxDay == 3            \* the clock stops advancing on this day

-----------------------------------------------------------------------------
(* Values and configuration *)

NoDate == -1
NoSubject == "None"
NoSession == [absent |-> TRUE]
PointScale == 10

Users == {"u1", "u2"}

\* config/app_settings.py ACHIEVEMENTS: achievement id -> points
ACHIEVEMENTS ==
    [first_login |-> 10, assessment_complete |-> 25, first_practice |-> 15,
     problem_solver_10 |-> 50, problem_solver_50 |-> 150,
     streak_7 |-> 100, streak_30 |-> 500,
     progress_25 |-> 75, progress_50 |-> 150, progress_75 |-> 250,
     progress_100 |-> 1000, tutor_favorite |-> 75,
     session_milestone_5 |-> 50, session_milestone_25 |-> 200,
     early_bird |-> 30, night_owl |-> 30]

\* config/app_settings.py PROGRESS_SETTINGS
points_per_problem == [Beginner |-> 2, Intermediate |-> 4, Advanced |-> 6, Expert |-> 8]
accuracy_bonus_threshold == 80      \* 0.8 * 100
streak_bonus_threshold == 7
time_spent_points_ratio == 10
max_daily_points == 200

\* thresholds of _check_milestone_achievements
milestone_achievements ==
    [t \in {5, 10, 20, 50} |->
        CASE t = 5 -> "achievement_collector"
          [] t = 10 -> "badge_hunter"
          [] t = 20 -> "achievement_master"
          [] t = 50 -> "legendary_achiever"]

-----------------------------------------------------------------------------
(* Helpers *)

Range(s) == {s[i] : i \in 1..Len(s)}
Min(a, b) == IF a <= b THEN a ELSE b
Max(a, b) == IF a >= b THEN a ELSE b

\* dict.get(key, default)
Get(data, key, default) == IF key \in DOMAIN data THEN data[key] ELSE default

\* exact fractions
Frac(n, d) == [n |-> n, d |-> d]
RECURSIVE GCD(_, _)
GCD(a, b) == IF b = 0 THEN a ELSE GCD(b, a % b)
\* a >= b and a = b; the common factor of the denominators is cancelled first
FracGeq(a, b) == LET g == GCD(a.d, b.d) IN a.n * (b.d \div g) >= b.n * (a.d \div g)
FracEq(a, b) == LET g == GCD(a.d, b.d) IN a.n * (b.d \div g) = b.n * (a.d \div g)
FracGeqInt(a, k) == a.n >= k * a.d
FracLtInt(a, k) == a.n < k * a.d


-----------------------------------------------------------------------------
(* utils/enhanced_stats.py: the stats dict of one user.  activity_history *)
(* stands for the key: the records appended to it at line 106 are read by  *)
(* nothing modelled here and are left out.                                 *)

_initialize_user_stats ==
    [overall_progress |-> Frac(0, 1),
     total_points |-> 0,
     level |-> 1,
     experience_points |-> 0,
     study_streak |-> 0,
     study_time_today |-> 0,
     total_study_time |-> 0,
     average_session_time |-> Frac(0, 1),
     last_activity_date |-> NoDate,
     sessions_completed |-> 0,
     problems_solved |-> 0,
     problems_correct |-> 0,
     accuracy_rate |-> Frac(0, 1),
     achievements |-> 0,
     badges |-> <<>>,
     subject_stats |-> <<>>,
     weak_areas |-> {},
     login_streak |-> 0,
     recent_sessions |-> <<>>,
     recent_achievements |-> <<>>,
     activity_history |-> <<>>]

\* get_user_stats keeping one entry only, that of the user asked for
get_user_stats_single(us, user_id) ==
    IF user_id \notin DOMAIN us
    THEN (user_id :> _initialize_user_stats)
    ELSE (user_id :> us[user_id])

\* get_user_stats: the user map with the user's entry created when missing
get_user_stats(us, user_id) ==
    IF user_id \notin DOMAIN us
    THEN (user_id :> _initialize_user_stats) @@ us
    ELSE us

-----------------------------------------------------------------------------
(* utils/achievements.py *)

\* The loop of _check_milestone_achievements reaches line 132 for the first
\* threshold the badge count has passed whose milestone id is not a badge;
\* building the f-string there raises NameError.
_check_milestone_achievements_raises(stats) ==
    \E t \in DOMAIN milestone_achievements :
        /\ Len(stats.badges) >= t
        /\ milestone_achievements[t] \notin Range(stats.badges)

\* award_to_stats without the test at line 35 for a badge already held
award_to_stats_unchecked(stats, achievement_id) ==
    LET points == ACHIEVEMENTS[achievement_id] * PointScale
        badges == Append(stats.badges, achievement_id)
        s1 == [stats EXCEPT
                  !.badges = badges,
                  !.achievements = Len(badges),
                  !.total_points = @ + points,
                  !.experience_points = @ + points]
    IN  [stats |-> s1, ret |-> ~_check_milestone_achievements_raises(s1)]

\* The body of award_achievement once the user's stats dict is in hand.
\* ret is the value returned; the dict keeps every assignment made before an
\* exception was caught at line 85.
award_to_stats(stats, achievement_id) ==
    IF achievement_id \in Range(stats.badges)
    THEN [stats |-> stats, ret |-> FALSE]
    ELSE LET points == ACHIEVEMENTS[achievement_id] * PointScale
             badges == Append(stats.badges, achievement_id)
             recent == Append(stats.recent_achievements, achievement_id)
             s1 == [stats EXCEPT
                       !.badges = badges,
                       !.achievements = Len(badges),
                       !.total_points = @ + points,
                       !.experience_points = @ + points,
                       !.recent_achievements =
                           IF Len(recent) > 10
                           THEN SubSeq(recent, Len(recent) - 9, Len(recent))
                           ELSE recent]
         IN  [stats |-> s1, ret |-> ~_check_milestone_achievements_raises(s1)]

\* award_achievement with the points added to experience_points only
award_achievement_experience_only(us, user_id, achievement_id) ==
    IF achievement_id \notin DOMAIN ACHIEVEMENTS
    THEN [user_stats |-> us, ret |-> FALSE]
    ELSE IF user_id \notin DOMAIN us
    THEN [user_stats |-> us, ret |-> FALSE]
    ELSE LET r == award_to_stats(us[user_id], achievement_id)
             kept == [r.stats EXCEPT !.total_points = us[user_id].total_points]
         IN  [user_stats |-> [us EXCEPT ![user_id] = kept], ret |-> r.ret]

award_achievement(us, user_id, achievement_id) ==
    IF achievement_id \notin DOMAIN ACHIEVEMENTS
    THEN [user_stats |-> us, ret |-> FALSE]
    ELSE IF user_id \notin DOMAIN us
    THEN [user_stats |-> us, ret |-> FALSE]
    ELSE LET r == award_to_stats(us[user_id], achievement_id)
         IN  [user_stats |-> [us EXCEPT ![user_id] = r.stats], ret |-> r.ret]

-----------------------------------------------------------------------------
(* utils/enhanced_stats.py: the handlers of update_stats *)

RECURSIVE SumSeq(_)
SumSeq(s) == IF s = <<>> THEN 0 ELSE Head(s) + SumSeq(Tail(s))

\* stats['subject_stats'][subject] as first created at line 220
new_subject_entry ==
    [total_problems |-> 0, correct_problems |-> 0, total_points |-> 0,
     accuracy |-> Frac(0, 1), mastery_progress |-> Frac(0, 1)]

\* _update_subject_stats listing weak areas without the five-problem minimum
_update_subject_stats_any_count(stats, subject, points, correct) ==
    LET ss0 == IF subject \notin DOMAIN stats.subject_stats
               THEN (subject :> new_subject_entry) @@ stats.subject_stats
               ELSE stats.subject_stats
        e == ss0[subject]
        total == e.total_problems + 1
        pts == e.total_points + points
        corr == IF correct THEN e.correct_problems + 1 ELSE e.correct_problems
        e1 == [total_problems |-> total,
               correct_problems |-> corr,
               total_points |-> pts,
               accuracy |-> Frac(100 * corr, total),
               mastery_progress |-> Frac(Min(100 * 10 * PointScale, pts), 10 * PointScale)]
        ss1 == [ss0 EXCEPT ![subject] = e1]
    IN  [stats EXCEPT
            !.subject_stats = ss1,
            !.weak_areas = {s \in DOMAIN ss1 : FracLtInt(ss1[s].accuracy, 60)}]

_update_subject_stats(stats, subject, points, correct) ==
    LET ss0 == IF subject \notin DOMAIN stats.subject_stats
               THEN (subject :> new_subject_entry) @@ stats.subject_stats
               ELSE stats.subject_stats
        e == ss0[subject]
        total == e.total_problems + 1
        pts == e.total_points + points
        corr == IF correct THEN e.correct_problems + 1 ELSE e.correct_problems
        e1 == [total_problems |-> total,
               correct_problems |-> corr,
               total_points |-> pts,
               accuracy |-> Frac(100 * corr, total),
               \* min(100, total_points / 10), total_points being pts / PointScale
               mastery_progress |-> Frac(Min(100 * 10 * PointScale, pts), 10 * PointScale)]
        ss1 == [ss0 EXCEPT ![subject] = e1]
    IN  [stats EXCEPT
            !.subject_stats = ss1,
            !.weak_areas = {s \in DOMAIN ss1 :
                               /\ FracLtInt(ss1[s].accuracy, 60)
                               /\ ss1[s].total_problems >= 5}]

\* problem_points without the streak bonus of lines 160-162
problem_points_without_streak(stats, data) ==
    LET difficulty == Get(data, "difficulty", "Beginner")
        base == IF difficulty \in DOMAIN points_per_problem
                THEN points_per_problem[difficulty] ELSE 2
        p0 == base * PointScale
    IN  IF FracGeqInt(stats.accuracy_rate, accuracy_bonus_threshold)
        THEN (p0 * 12) \div 10 ELSE p0

\* points of one solved problem, in tenths: base, * 1.2, * 1.5
problem_points(stats, data) ==
    LET difficulty == Get(data, "difficulty", "Beginner")
        base == IF difficulty \in DOMAIN points_per_problem
                THEN points_per_problem[difficulty] ELSE 2
        p0 == base * PointScale
        p1 == IF FracGeqInt(stats.accuracy_rate, accuracy_bonus_threshold)
              THEN (p0 * 12) \div 10 ELSE p0
    IN  IF stats.study_streak >= streak_bonus_threshold
        THEN (p1 * 15) \div 10 ELSE p1

\* count_correct with the rate taken from the answers that were not correct
count_correct_inverted(stats, correct) ==
    LET corr == IF correct THEN stats.problems_correct + 1 ELSE stats.problems_correct
    IN  [stats EXCEPT
            !.problems_correct = corr,
            !.accuracy_rate = IF stats.problems_solved > 0
                              THEN Frac(100 * (stats.problems_solved - corr),
                                        stats.problems_solved)
                              ELSE @]

\* count_correct with the rate recomputed on a correct answer only
count_correct_stale(stats, correct) ==
    IF correct
    THEN [stats EXCEPT
            !.problems_correct = @ + 1,
            !.accuracy_rate = Frac(100 * (stats.problems_correct + 1),
                                   stats.problems_solved)]
    ELSE stats

\* lines 145-150: problems_correct and the accuracy rate, problems_solved
\* being counted already
count_correct(stats, correct) ==
    LET corr == IF correct THEN stats.problems_correct + 1 ELSE stats.problems_correct
    IN  [stats EXCEPT
            !.problems_correct = corr,
            !.accuracy_rate = IF stats.problems_solved > 0
                              THEN Frac(100 * corr, stats.problems_solved) ELSE @]

\* lines 152-170: the points and the subject's entry
award_problem_points(stats, data) ==
    LET points == problem_points(stats, data)
        s2 == [stats EXCEPT !.total_points = @ + points,
                            !.experience_points = @ + points]
        subject == Get(data, "subject", NoSubject)
    IN  IF subject # NoSubject
        THEN _update_subject_stats(s2, subject, points, Get(data, "correct", FALSE))
        ELSE s2

_update_problem_stats(stats, data) ==
    LET s0 == [stats EXCEPT !.problems_solved = @ + 1]
        s1 == count_correct(s0, Get(data, "correct", FALSE))
    IN  award_problem_points(s1, data)

_update_session_stats(stats, data) ==
    LET appended == Append(stats.recent_sessions, Get(data, "duration", 0))
        recent == IF Len(appended) > 20
                  THEN SubSeq(appended, Len(appended) - 19, Len(appended))
                  ELSE appended
    IN  [stats EXCEPT
            !.sessions_completed = @ + 1,
            !.recent_sessions = recent,
            !.average_session_time = Frac(SumSeq(recent), Len(recent))]

\* points given for one study_time event, in tenths (lines 201-202)
time_points(data) ==
    Min(Get(data, "time_spent", 0) * time_spent_points_ratio * PointScale,
        max_daily_points * PointScale)

\* _update_time_stats storing the points of the event over the total
_update_time_stats_assigning(stats, data) ==
    LET time_spent == Get(data, "time_spent", 0)
    IN  [stats EXCEPT
            !.study_time_today = @ + time_spent,
            !.total_study_time = @ + time_spent,
            !.total_points = time_points(data)]

_update_time_stats(stats, data) ==
    LET time_spent == Get(data, "time_spent", 0)
    IN  [stats EXCEPT
            !.study_time_today = @ + time_spent,
            !.total_study_time = @ + time_spent,
            !.total_points = @ + time_points(data)]

\* `day` is the date _update_login_stats reads from the clock itself
_update_login_stats(stats, day) ==
    IF stats.last_activity_date = day - 1
    THEN [stats EXCEPT !.login_streak = @ + 1]
    ELSE IF stats.last_activity_date # day
    THEN [stats EXCEPT !.login_streak = 1]
    ELSE stats

\* overall_progress = sum(progress_factors) / 4 * 100, as an exact fraction
\* over the denominator 1000 * PointScale * accuracy_rate.d
overall_progress_of(stats) ==
    LET cap == 1000 * PointScale
        d == stats.accuracy_rate.d
        f1 == Min(stats.total_points, cap) * d                     \* min(points / 1000, 1)
        f2 == Min(stats.problems_solved, 100) * (cap \div 100) * d \* min(solved / 100, 1)
        f3 == stats.accuracy_rate.n * (cap \div 100)               \* accuracy_rate / 100
        f4 == Min(stats.sessions_completed, 50) * (cap \div 50) * d
    IN  Frac(25 * (f1 + f2 + f3 + f4), cap * d)

_calculate_derived_metrics(stats) ==
    [stats EXCEPT !.overall_progress = overall_progress_of(stats)]

_update_streaks(stats, day) ==
    LET last_date == stats.last_activity_date
    IN  IF last_date = NoDate THEN [stats EXCEPT !.study_streak = 1]
        ELSE IF last_date = day THEN stats
        ELSE IF last_date = day - 1 THEN [stats EXCEPT !.study_streak = @ + 1]
        ELSE [stats EXCEPT !.study_streak = 1]

\* int((xp / 100) ** 0.5) + 1, xp counted in tenths
RECURSIVE level_from(_, _)
level_from(l, xp) ==
    IF l * l * 100 * PointScale <= xp THEN level_from(l + 1, xp) ELSE l

level_of(xp) == level_from(1, xp)

\* _update_level_and_experience adding the level_up badge without counting it
_update_level_and_experience_uncounted(stats) ==
    LET new_level == level_of(stats.experience_points)
    IN  IF new_level > stats.level
        THEN IF "level_up" \notin Range(stats.badges)
             THEN [stats EXCEPT !.level = new_level,
                                !.badges = Append(@, "level_up")]
             ELSE [stats EXCEPT !.level = new_level]
        ELSE stats

_update_level_and_experience(stats) ==
    LET new_level == level_of(stats.experience_points)
    IN  IF new_level > stats.level
        THEN IF "level_up" \notin Range(stats.badges)
             THEN [stats EXCEPT !.level = new_level,
                                !.badges = Append(@, "level_up"),
                                !.achievements = @ + 1]
             ELSE [stats EXCEPT !.level = new_level]
        ELSE stats

-----------------------------------------------------------------------------
(* utils/enhanced_stats.py: _check_achievements and update_stats *)

\* the table at lines 341-352, in its order
achievement_checks ==
    <<"problem_solver_10", "problem_solver_50", "streak_7", "streak_30",
      "progress_25", "progress_50", "progress_75", "progress_100",
      "session_milestone_5", "session_milestone_25">>

achievement_condition(id, stats) ==
    CASE id = "problem_solver_10" -> stats.problems_solved >= 10
      [] id = "problem_solver_50" -> stats.problems_solved >= 50
      [] id = "streak_7" -> stats.study_streak >= 7
      [] id = "streak_30" -> stats.study_streak >= 30
      [] id = "progress_25" -> FracGeqInt(stats.overall_progress, 25)
      [] id = "progress_50" -> FracGeqInt(stats.overall_progress, 50)
      [] id = "progress_75" -> FracGeqInt(stats.overall_progress, 75)
      [] id = "progress_100" -> FracGeqInt(stats.overall_progress, 100)
      [] id = "session_milestone_5" -> stats.sessions_completed >= 5
      [] id = "session_milestone_25" -> stats.sessions_completed >= 25

\* check_passes without the test for a badge already held
check_passes_unguarded(stats, achievement_id) ==
    achievement_condition(achievement_id, stats)

\* line 355: is this entry of the table awarded now
check_passes(stats, achievement_id) ==
    /\ achievement_id \notin Range(stats.badges)
    /\ achievement_condition(achievement_id, stats)

\* the loop at lines 354-357 from entry i on; found is new_achievements so far
RECURSIVE check_from(_, _, _, _)
check_from(us, user_id, i, found) ==
    IF i > Len(achievement_checks)
    THEN [user_stats |-> us, new_achievements |-> found]
    ELSE LET id == achievement_checks[i]
         IN  IF check_passes(us[user_id], id)
             THEN check_from(award_achievement(us, user_id, id).user_stats,
                             user_id, i + 1, Append(found, id))
             ELSE check_from(us, user_id, i + 1, found)

_check_achievements(us, user_id) == check_from(us, user_id, 1, <<>>)

\* lines 113-120
process_activity(stats, activity_type, data, day) ==
    CASE activity_type = "problem_solved" -> _update_problem_stats(stats, data)
      [] activity_type = "session_completed" -> _update_session_stats(stats, data)
      [] activity_type = "study_time" -> _update_time_stats(stats, data)
      [] activity_type = "login" -> _update_login_stats(stats, day)
      [] OTHER -> stats


\* finish_update with the achievement check run before the derived metrics
finish_update_check_first(us, user_id, stats, day) ==
    LET chk == _check_achievements([us EXCEPT ![user_id] = stats], user_id)
        s3 == _calculate_derived_metrics(chk.user_stats[user_id])
        s4 == _update_streaks(s3, day)
        s5 == _update_level_and_experience(s4)
    IN  [user_stats |-> [chk.user_stats EXCEPT ![user_id] = s5],
         new_achievements |-> chk.new_achievements]

\* finish_update with the level computed before the achievement check
finish_update_level_first(us, user_id, stats, day) ==
    LET s3 == _update_level_and_experience(_calculate_derived_metrics(stats))
        chk == _check_achievements([us EXCEPT ![user_id] = s3], user_id)
        s4 == _update_streaks(chk.user_stats[user_id], day)
    IN  [user_stats |-> [chk.user_stats EXCEPT ![user_id] = s4],
         new_achievements |-> chk.new_achievements]

\* lines 122-132, once the activity is processed into `stats`
finish_update(us, user_id, stats, day) ==
    LET s3 == _calculate_derived_metrics(stats)
        chk == _check_achievements([us EXCEPT ![user_id] = s3], user_id)
        s4 == _update_streaks(chk.user_stats[user_id], day)
        s5 == _update_level_and_experience(s4)
    IN  [user_stats |-> [chk.user_stats EXCEPT ![user_id] = s5],
         new_achievements |-> chk.new_achievements]

\* update_stats on the clock's date `day`.  The stored dict may be one that
\* app.py's get_user_stats created, which has no 'activity_history' key:
\* line 106 then raises KeyError after line 98 has written the date, the
\* except branch at line 137 logs it and line 139 returns the dict.  On a
\* dict of _initialize_user_stats no step raises for the events of this model.
update_stats(us, user_id, activity_type, data, day) ==
    LET us0 == get_user_stats(us, user_id)
        s1 == [us0[user_id] EXCEPT !.last_activity_date = day]
    IN  IF "activity_history" \notin DOMAIN s1
        THEN [user_stats |-> [us0 EXCEPT ![user_id] = s1], new_achievements |-> <<>>]
        ELSE finish_update(us0, user_id,
                           process_activity(s1, activity_type, data, day), day)

-----------------------------------------------------------------------------
(* Operations on the user statistics *)

Difficulties == {"Beginner", "Intermediate", "Advanced"}
Threads == {"t1", "t2"}
Idle == [pc |-> "idle", made |-> 0]

\* counters of a user who may have no entry yet
StatsOf(user_id) == get_user_stats(user_stats, user_id)[user_id]

\* one whole update_stats call
UpdateStats(user_id, activity_type, data) ==
    LET r == update_stats(user_stats, user_id, activity_type, data, today)
    IN  /\ user_stats' = r.user_stats
        /\ new_achievements' = r.new_achievements
        /\ day_time_points' =
               IF activity_type = "study_time"
               THEN [day_time_points EXCEPT ![user_id] = @ + time_points(data)]
               ELSE day_time_points
        /\ UNCHANGED <<today, adaptive_session, calls>>

\* a direct call of AchievementManager.award_achievement
AwardAchievement(user_id, achievement_id) ==
    /\ user_stats' = award_achievement(user_stats, user_id, achievement_id).user_stats
    /\ UNCHANGED <<today, day_time_points, new_achievements, adaptive_session, calls>>

\* _check_achievements run on its own on the user's stats dict
CheckAchievements(user_id) ==
    /\ user_id \in DOMAIN user_stats
    /\ LET r == _check_achievements(user_stats, user_id)
       IN  /\ user_stats' = r.user_stats
           /\ new_achievements' = r.new_achievements
    /\ UNCHANGED <<today, day_time_points, adaptive_session, calls>>

\* midnight passes
AdvanceDay ==
    /\ today < MaxDay
    /\ today' = today + 1
    /\ day_time_points' = [u \in Users |-> 0]
    /\ UNCHANGED <<user_stats, new_achievements, adaptive_session, calls>>

-----------------------------------------------------------------------------
(* Events as the callers raise them, drawn from the given input sets *)

ProblemSolved(users, difficulties, subjects, max) ==
    \E u \in users, c \in BOOLEAN, d \in difficulties, s \in subjects :
        /\ StatsOf(u).problems_solved < max
        /\ UpdateStats(u, "problem_solved", [correct |-> c, difficulty |-> d, subject |-> s])

SessionCompleted(users, durations, max) ==
    \E u \in users, d \in durations :
        /\ StatsOf(u).sessions_completed < max
        /\ UpdateStats(u, "session_completed", [duration |-> d])

StudyTime(users, hours, max) ==
    \E u \in users, t \in hours :
        /\ StatsOf(u).total_study_time + t <= max
        /\ UpdateStats(u, "study_time", [time_spent |-> t])

Login(users) ==
    \E u \in users : UpdateStats(u, "login", <<>>)

Award(users, ids) ==
    \E u \in users, a \in ids : AwardAchievement(u, a)

Recheck(users) ==
    \E u \in users : CheckAchievements(u)

Init ==
    /\ user_stats = <<>>
    /\ today = 0
    /\ day_time_points = [u \in Users |-> 0]
    /\ new_achievements = <<>>
    /\ adaptive_session = NoSession
    /\ calls = [t \in Threads |-> Idle]

-----------------------------------------------------------------------------
(* Spec: one user on one day, long enough to unlock achievements *)

StatsUsers == {"u1"}
SubjectInputs == {"Mathematics"}
DurationInputs == {30}
AwardInputs == {"first_login", "memory_master"}

Next ==
    \/ ProblemSolved(StatsUsers, {"Beginner"}, SubjectInputs, MaxProblems)
    \/ SessionCompleted(StatsUsers, DurationInputs, MaxSessions)
    \/ Login(StatsUsers)
    \/ Award(StatsUsers, AwardInputs)
    \/ Recheck(StatsUsers)

Spec == Init /\ [][Next]_vars

-----------------------------------------------------------------------------
(* SpecEvents: every kind of valid event, over several days *)

TimeInputs == {10, 25}

NextEvents ==
    \/ ProblemSolved(StatsUsers, Difficulties, SubjectInputs, EvProblems)
    \/ SessionCompleted(StatsUsers, DurationInputs, EvSessions)
    \/ StudyTime(StatsUsers, TimeInputs, EvStudyHours)
    \/ Login(StatsUsers)
    \/ AdvanceDay

SpecEvents == Init /\ [][NextEvents]_vars

-----------------------------------------------------------------------------
(* components/adaptive_practice.py: the adaptive session *)

levels == <<"Beginner", "Intermediate", "Advanced">>

\* levels.index(current)
level_index(current) == CHOOSE i \in 1..Len(levels) : levels[i] = current

LastEntries(s, n) == SubSeq(s, Max(1, Len(s) - n + 1), Len(s))

_get_adaptive_difficulty(stats) ==
    IF FracLtInt(stats.overall_progress, 20) \/ FracLtInt(stats.accuracy_rate, 50)
    THEN "Beginner"
    ELSE IF FracLtInt(stats.overall_progress, 60) \/ FracLtInt(stats.accuracy_rate, 75)
    THEN "Intermediate"
    ELSE "Advanced"

_get_adaptive_difficulty_for_subject(subject, stats) ==
    IF subject \notin DOMAIN stats.subject_stats
    THEN _get_adaptive_difficulty(stats)
    ELSE LET e == stats.subject_stats[subject]
         IN  IF e.total_problems < 5 THEN "Beginner"
             ELSE IF FracLtInt(e.accuracy, 60) THEN "Beginner"
             ELSE IF FracLtInt(e.accuracy, 80) THEN "Intermediate"
             ELSE "Advanced"

\* the dict created at line 164
new_adaptive_session(subject, difficulty) ==
    [problems_attempted |-> 0,
     problems_correct |-> 0,
     current_difficulty |-> difficulty,
     difficulty_history |-> <<>>,
     subject |-> subject,
     adaptive_adjustments |-> 0]

_should_increase_difficulty(session) ==
    IF session.problems_attempted < 3 THEN FALSE
    ELSE LET recent == LastEntries(session.difficulty_history, 3)
         IN  Cardinality({i \in 1..Len(recent) : recent[i].correct}) >= 3

_should_decrease_difficulty(session) ==
    IF session.problems_attempted < 3 THEN FALSE
    ELSE LET recent == LastEntries(session.difficulty_history, 3)
         IN  Cardinality({i \in 1..Len(recent) : ~recent[i].correct}) >= 2

\* _get_next_difficulty going round to the first level after the last
_get_next_difficulty_wrapping(current) ==
    IF current \in Range(levels)
    THEN levels[(level_index(current) % Len(levels)) + 1]
    ELSE "Intermediate"

_get_next_difficulty(current) ==
    IF current \in Range(levels)
    THEN levels[Min(level_index(current) + 1, Len(levels))]
    ELSE "Intermediate"

\* _get_previous_difficulty stepping up the list instead of down
_get_previous_difficulty_upwards(current) ==
    IF current \in Range(levels)
    THEN levels[Min(level_index(current) + 1, Len(levels))]
    ELSE "Beginner"

_get_previous_difficulty(current) ==
    IF current \in Range(levels)
    THEN levels[Max(level_index(current) - 1, 1)]
    ELSE "Beginner"

\* lines 275-279 and 877-881; problem_number is the entry's index
record_outcome(session, correct) ==
    [session EXCEPT !.difficulty_history =
        Append(@, [difficulty |-> session.current_difficulty, correct |-> correct])]

\* what _process_adaptive_answer does to the session dict
_process_adaptive_answer(session, is_correct) ==
    LET s1 == [session EXCEPT !.problems_attempted = @ + 1]
        s2 == IF is_correct
              THEN LET c == [s1 EXCEPT !.problems_correct = @ + 1]
                   IN  IF _should_increase_difficulty(c)
                       THEN [c EXCEPT
                               !.current_difficulty = _get_next_difficulty(@),
                               !.adaptive_adjustments = @ + 1]
                       ELSE c
              ELSE IF _should_decrease_difficulty(s1)
                   THEN [s1 EXCEPT
                           !.current_difficulty = _get_previous_difficulty(@),
                           !.adaptive_adjustments = @ + 1]
                   ELSE s1
    IN  record_outcome(s2, is_correct)

_skip_adaptive_problem(session) ==
    LET s1 == [session EXCEPT !.problems_attempted = @ + 1]
        s2 == record_outcome(s1, FALSE)
    IN  IF _should_decrease_difficulty(s2)
        THEN [s2 EXCEPT
                !.current_difficulty = _get_previous_difficulty(@),
                !.adaptive_adjustments = @ + 1]
        ELSE s2

\* _adaptive_practice_session, reached from render_practice_interface, which
\* reads the user's stats first.  With ten problems attempted it calls
\* _complete_adaptive_session, which reads session['start_time'] at line 906;
\* the dict holds 'session_start', the KeyError is caught at line 991, and
\* neither the statistics nor the session change.
ViewAdaptiveSession(user_id, subject) ==
    LET us0 == get_user_stats(user_stats, user_id)
        difficulty == _get_adaptive_difficulty_for_subject(subject, us0[user_id])
    IN  /\ user_stats' = us0
        /\ adaptive_session' =
               IF adaptive_session = NoSession
               THEN new_adaptive_session(subject, difficulty)
               ELSE adaptive_session
        /\ UNCHANGED <<today, day_time_points, new_achievements, calls>>

\* "Submit Answer": is_correct is the verdict of _check_answer
SubmitAnswer(user_id, is_correct) ==
    /\ adaptive_session # NoSession
    /\ adaptive_session' = _process_adaptive_answer(adaptive_session, is_correct)
    /\ IF is_correct
       THEN LET r == update_stats(user_stats, user_id, "problem_solved",
                                  [correct |-> TRUE,
                                   subject |-> adaptive_session.subject,
                                   difficulty |-> adaptive_session.current_difficulty],
                                  today)
            IN  /\ user_stats' = r.user_stats
                /\ new_achievements' = r.new_achievements
       ELSE UNCHANGED <<user_stats, new_achievements>>
    /\ UNCHANGED <<today, day_time_points, calls>>

\* "Skip Problem"
SkipProblem ==
    /\ adaptive_session # NoSession
    /\ adaptive_session' = _skip_adaptive_problem(adaptive_session)
    /\ UNCHANGED <<user_stats, today, day_time_points, new_achievements, calls>>

-----------------------------------------------------------------------------
(* SpecAdaptive: practice in other modes, then one adaptive session *)

PracticeSubjects == {"Mathematics", "Physics"}

Practice ==
    /\ adaptive_session = NoSession
    /\ ProblemSolved(StatsUsers, {"Beginner"}, PracticeSubjects, AdPractice)

StartOrView == \E u \in StatsUsers : ViewAdaptiveSession(u, "Mathematics")

Answer ==
    \E u \in StatsUsers, c \in BOOLEAN :
        /\ adaptive_session # NoSession
        /\ adaptive_session.problems_attempted < MaxAttempts
        /\ SubmitAnswer(u, c)

Skip ==
    /\ adaptive_session # NoSession
    /\ adaptive_session.problems_attempted < MaxAttempts
    /\ SkipProblem

NextAdaptive == Practice \/ StartOrView \/ Answer \/ Skip

SpecAdaptive == Init /\ [][NextAdaptive]_vars

-----------------------------------------------------------------------------
(* SpecThreads: update_stats called from two threads for the same user.      *)
(* update_stats takes no lock, and stats['problems_solved'] += 1 at line 143 *)
(* is a load of the counter followed by a store: another thread may run      *)
(* between the two.  The rest of a call is taken in one step here, which is  *)
(* the scheduling in which the thread is not interrupted again.              *)

\* lines 93-110: the stats dict is fetched and last_activity_date set
BeginCall(t, user_id, data) ==
    /\ calls[t].pc = "idle"
    /\ calls[t].made < ThreadCalls
    /\ LET us0 == get_user_stats(user_stats, user_id)
       IN  user_stats' = [us0 EXCEPT ![user_id].last_activity_date = today]
    /\ calls' = [calls EXCEPT ![t] =
                    [pc |-> "load", made |-> calls[t].made + 1,
                     user_id |-> user_id, data |-> data]]
    /\ UNCHANGED <<today, day_time_points, new_achievements, adaptive_session>>

\* line 143, the load of stats['problems_solved']
LoadSolved(t) ==
    /\ calls[t].pc = "load"
    /\ calls' = [calls EXCEPT ![t] =
                    [pc |-> "store", made |-> calls[t].made,
                     user_id |-> calls[t].user_id, data |-> calls[t].data,
                     loaded |-> user_stats[calls[t].user_id].problems_solved]]
    /\ UNCHANGED <<user_stats, today, day_time_points, new_achievements, adaptive_session>>

\* line 143, the store of the loaded value plus one
StoreSolved(t) ==
    /\ calls[t].pc = "store"
    /\ user_stats' = [user_stats EXCEPT
                         ![calls[t].user_id].problems_solved = calls[t].loaded + 1]
    /\ calls' = [calls EXCEPT ![t] =
                    [pc |-> "rest", made |-> calls[t].made,
                     user_id |-> calls[t].user_id, data |-> calls[t].data]]
    /\ UNCHANGED <<today, day_time_points, new_achievements, adaptive_session>>

\* lines 145-135, the rest of the call
FinishCall(t) ==
    /\ calls[t].pc = "rest"
    /\ LET u == calls[t].user_id
           s1 == count_correct(user_stats[u], Get(calls[t].data, "correct", FALSE))
           s2 == award_problem_points(s1, calls[t].data)
           r == finish_update(user_stats, u, s2, today)
       IN  /\ user_stats' = r.user_stats
           /\ new_achievements' = r.new_achievements
    /\ calls' = [calls EXCEPT ![t] = [pc |-> "idle", made |-> calls[t].made]]
    /\ UNCHANGED <<today, day_time_points, adaptive_session>>

InitThreads ==
    /\ user_stats = <<>>
    /\ today = 0
    /\ day_time_points = [u \in Users |-> 0]
    /\ new_achievements = <<>>
    /\ adaptive_session = NoSession
    /\ calls = [t \in Threads |-> [pc |-> "idle", made |-> 0]]

Begin ==
    \E t \in Threads, u \in StatsUsers, c \in BOOLEAN :
        BeginCall(t, u, [correct |-> c, difficulty |-> "Beginner", subject |-> "Mathematics"])

Load == \E t \in Threads : LoadSolved(t)

Store == \E t \in Threads : StoreSolved(t)

Finish == \E t \in Threads : FinishCall(t)

NextThreads == Begin \/ Load \/ Store \/ Finish

SpecThreads == InitThreads /\ [][NextThreads]_vars

-----------------------------------------------------------------------------
(* What the claims speak of *)

Badges(u) == Range(user_stats[u].badges)

\* the valid events of SpecEvents, as <<activity_type, data>>
ValidEvents ==
    {<<"problem_solved", [correct |-> x[1], difficulty |-> x[2], subject |-> x[3]]>> :
        x \in BOOLEAN \X Difficulties \X SubjectInputs}
    \cup {<<"session_completed", [duration |-> d]>> : d \in DurationInputs}
    \cup {<<"study_time", [time_spent |-> t]>> : t \in TimeInputs}

IsIncorrectProblem(e) == e[1] = "problem_solved" /\ ~e[2].correct

-----------------------------------------------------------------------------
(* C1 *)

NoDuplicateBadges ==
    \A u \in DOMAIN user_stats :
        \A i, j \in 1..Len(user_stats[u].badges) :
            i # j => user_stats[u].badges[i] # user_stats[u].badges[j]

BadgesKept ==
    \A u \in DOMAIN user_stats :
        /\ u \in DOMAIN user_stats'
        /\ Range(user_stats[u].badges) \subseteq Range(user_stats'[u].badges)

\* C1: after every update_stats, award_achievement or achievement check, the
\* user's badges hold no id twice, and every id held before the step is
\* still held after it.
C1_BadgesUniqueAndKept == [][NoDuplicateBadges' /\ BadgesKept]_vars

\* a user for whom awards were made and refused: five badges or more, one of
\* them added by the level update
C1_Witness ==
    \E u \in DOMAIN user_stats :
        /\ Len(user_stats[u].badges) >= 5
        /\ "level_up" \in Badges(u)
        /\ "first_login" \in Badges(u)

-----------------------------------------------------------------------------
(* C2 *)

\* C2: running _check_achievements again on a state that has had no event
\* since the check last ran returns an empty list and leaves badges,
\* total_points and experience_points as they were.
C2_RecheckIdempotent ==
    \A u \in DOMAIN user_stats :
        LET first == _check_achievements(user_stats, u)
            second == _check_achievements(first.user_stats, u)
        IN  /\ second.new_achievements = <<>>
            /\ second.user_stats[u].badges = first.user_stats[u].badges
            /\ second.user_stats[u].total_points = first.user_stats[u].total_points
            /\ second.user_stats[u].experience_points =
                   first.user_stats[u].experience_points

\* the first run unlocked achievements of the table, the run after it none
C2_Witness ==
    \E u \in DOMAIN user_stats :
        /\ {"progress_25", "problem_solver_10", "session_milestone_5"} \subseteq Badges(u)
        /\ new_achievements = <<>>

-----------------------------------------------------------------------------
(* C3 *)

\* C3: with last_activity_date = D and study_streak = s before update_stats,
\* an event on day D leaves study_streak at s, an event on day D+1 makes it
\* s+1, and an event after a longer gap makes it 1.
C3_StreakGapRule ==
    [][\A u \in DOMAIN user_stats : \A e \in ValidEvents :
          (user_stats[u].last_activity_date # NoDate /\ UpdateStats(u, e[1], e[2])) =>
              LET D == user_stats[u].last_activity_date
                  s == user_stats[u].study_streak
                  after == user_stats'[u].study_streak
              IN  /\ today = D => after = s
                  /\ today = D + 1 => after = s + 1
                  /\ today > D + 1 => after = 1]_vars

-----------------------------------------------------------------------------
(* C4 *)

IncorrectProblemStep(u) ==
    /\ user_stats'[u].problems_solved = StatsOf(u).problems_solved + 1
    /\ user_stats'[u].problems_correct = StatsOf(u).problems_correct

-----------------------------------------------------------------------------
(* C5 *)

\* C5: total_points, problems_solved and sessions_completed never decrease
\* from one valid event to the next.
C5_CountersNeverDecrease ==
    [][\A u \in StatsUsers :
          u \in DOMAIN user_stats' =>
          /\ user_stats'[u].total_points >= StatsOf(u).total_points
          /\ user_stats'[u].problems_solved >= StatsOf(u).problems_solved
          /\ user_stats'[u].sessions_completed >= StatsOf(u).sessions_completed]_vars

C5_Witness ==
    \E u \in DOMAIN user_stats :
        /\ user_stats[u].problems_solved = EvProblems
        /\ user_stats[u].problems_correct = 0
        /\ user_stats[u].sessions_completed >= 1
        /\ user_stats[u].total_study_time >= 20

-----------------------------------------------------------------------------
(* C6 *)

\* C6: in every reachable state problems_correct <= problems_solved,
\* 0 <= accuracy_rate <= 100, and accuracy_rate is
\* 100 * problems_correct / problems_solved, or 0 when nothing is solved.
C6_AccuracyInvariant ==
    \A u \in DOMAIN user_stats :
        LET st == user_stats[u]
        IN  /\ st.problems_correct <= st.problems_solved
            /\ st.accuracy_rate.d > 0
            /\ st.accuracy_rate.n >= 0
            /\ st.accuracy_rate.n <= 100 * st.accuracy_rate.d
            /\ IF st.problems_solved = 0
               THEN st.accuracy_rate.n = 0
               ELSE FracEq(st.accuracy_rate, Frac(100 * st.problems_correct, st.problems_solved))

\* a mix of correct and incorrect answers, the last of them incorrect
C6_Witness ==
    \E u \in DOMAIN user_stats :
        /\ user_stats[u].problems_solved = 3
        /\ user_stats[u].problems_correct = 1
        /\ user_stats[u].subject_stats["Mathematics"].total_points = 2 * 12 + 2 * 10 + 2 * 10

-----------------------------------------------------------------------------
(* C7 *)

\* C7: the points that the study_time events of one calendar day add to
\* total_points never exceed max_daily_points in sum.
C7_DailyTimePointsCapped ==
    \A u \in Users : day_time_points[u] <= max_daily_points * PointScale

-----------------------------------------------------------------------------
(* C8 *)

SessionOpen == adaptive_session # NoSession

\* the step answered a problem correctly
CorrectStep ==
    /\ SessionOpen
    /\ adaptive_session'.problems_correct = adaptive_session.problems_correct + 1

\* the step answered a problem incorrectly or skipped it
IncorrectStep ==
    /\ SessionOpen
    /\ adaptive_session'.problems_attempted = adaptive_session.problems_attempted + 1
    /\ adaptive_session'.problems_correct = adaptive_session.problems_correct

\* C8: the session's difficulty is always Beginner, Intermediate or
\* Advanced; an incorrect or skipped problem at Beginner leaves it at
\* Beginner and a correct answer at Advanced leaves it at Advanced.
C8_DifficultyBounded ==
    [][/\ adaptive_session' # NoSession =>
              adaptive_session'.current_difficulty \in Range(levels)
       /\ (IncorrectStep /\ adaptive_session.current_difficulty = "Beginner") =>
              adaptive_session'.current_difficulty = "Beginner"
       /\ (CorrectStep /\ adaptive_session.current_difficulty = "Advanced") =>
              adaptive_session'.current_difficulty = "Advanced"]_vars

\* a promotion was attempted at Advanced: the session began there, every
\* answer was correct, and an adjustment was counted
C8_Witness ==
    /\ SessionOpen
    /\ adaptive_session.adaptive_adjustments >= 1
    /\ adaptive_session.current_difficulty = "Advanced"
    /\ \A i \in 1..Len(adaptive_session.difficulty_history) :
           /\ adaptive_session.difficulty_history[i].correct
           /\ adaptive_session.difficulty_history[i].difficulty = "Advanced"

-----------------------------------------------------------------------------
(* C9 *)

\* C9: in a session that starts at Beginner, after three correct answers in
\* a row the difficulty is Intermediate, adjusted once, by the third answer.
C9_PromotedByThirdAnswer ==
    (/\ SessionOpen
     /\ adaptive_session.problems_attempted = 3
     /\ Len(adaptive_session.difficulty_history) = 3
     /\ \A i \in 1..3 : adaptive_session.difficulty_history[i].correct
     /\ adaptive_session.difficulty_history[1].difficulty = "Beginner")
    => /\ adaptive_session.current_difficulty = "Intermediate"
       /\ adaptive_session.adaptive_adjustments = 1

-----------------------------------------------------------------------------
(* C10 *)

CallsMade == calls["t1"].made + calls["t2"].made

\* C10: update_stats calls for one user do not interleave their reads and
\* writes, so once no call is in flight the state is that of the calls
\* applied one after another: every call is counted in problems_solved.
C10_NoLostUpdate ==
    (\A t \in Threads : calls[t].pc = "idle") =>
        \A u \in DOMAIN user_stats : user_stats[u].problems_solved = CallsMade

-----------------------------------------------------------------------------
(* SpecInvalid: update_stats given events with fields outside their domain. *)
(* update_stats passes kwargs to the handlers as they are: nothing between  *)
(* line 93 and line 120 inspects them.                                      *)

InvProblems == 3       \* SpecInvalid: problem_solved events
InvSessions == 3       \* SpecInvalid: session_completed events
InvHours == 3          \* SpecInvalid: total_study_time stays within -InvHours..InvHours

\* kwargs of problem_solved with a difficulty that is no key of
\* points_per_problem, and without the correct flag
InvalidProblemData ==
    {[correct |-> TRUE, difficulty |-> "Impossible", subject |-> "Mathematics"],
     [difficulty |-> "Beginner", subject |-> "Mathematics"]}

InvalidEvents ==
    {<<"problem_solved", d>> : d \in InvalidProblemData}
        \cup {<<"session_completed", [duration |-> -30]>>,
              <<"study_time", [time_spent |-> -1]>>}

InvalidProblem ==
    \E u \in StatsUsers, d \in InvalidProblemData :
        /\ StatsOf(u).problems_solved < InvProblems
        /\ UpdateStats(u, "problem_solved", d)

InvalidSession ==
    \E u \in StatsUsers :
        /\ StatsOf(u).sessions_completed < InvSessions
        /\ UpdateStats(u, "session_completed", [duration |-> -30])

InvalidTime ==
    \E u \in StatsUsers :
        /\ StatsOf(u).total_study_time - 1 >= -InvHours
        /\ UpdateStats(u, "study_time", [time_spent |-> -1])

NextInvalid ==
    \/ InvalidProblem
    \/ InvalidSession
    \/ InvalidTime
    \/ ProblemSolved(StatsUsers, {"Advanced"}, SubjectInputs, InvProblems)
    \/ StudyTime(StatsUsers, {1}, InvHours)
    \/ AdvanceDay

SpecInvalid == Init /\ [][NextInvalid]_vars

-----------------------------------------------------------------------------
(* C11 *)

\* C11: an event with an out-of-domain field (negative time_spent, negative
\* duration, a difficulty outside the known levels, no correct flag) leaves
\* the user's state as it was before the call.
C11_InvalidEventRejected ==
    [][\A u \in DOMAIN user_stats : \A e \in InvalidEvents :
          UpdateStats(u, e[1], e[2]) => user_stats' = user_stats]_vars

-----------------------------------------------------------------------------
(* C12 *)

\* Does an award made by the loop of _check_achievements from entry i on
\* raise?  An entry that passes line 355 is a registered id the user does
\* not hold, so award_achievement returns False for it only through the
\* except branch at line 85.
RECURSIVE check_raises_from(_, _, _)
check_raises_from(us, user_id, i) ==
    IF i > Len(achievement_checks)
    THEN FALSE
    ELSE LET id == achievement_checks[i]
         IN  IF check_passes(us[user_id], id)
             THEN LET r == award_achievement(us, user_id, id)
                  IN  ~r.ret \/ check_raises_from(r.user_stats, user_id, i + 1)
             ELSE check_raises_from(us, user_id, i + 1)

\* a step of this update_stats call fails: an exception is raised (and
\* caught at achievements.py:85) inside the achievement check at line 126
update_stats_fails(us, user_id, activity_type, data, day) ==
    LET us0 == get_user_stats(us, user_id)
        s1 == [us0[user_id] EXCEPT !.last_activity_date = day]
        s2 == process_activity(s1, activity_type, data, day)
        s3 == _calculate_derived_metrics(s2)
    IN  check_raises_from([us0 EXCEPT ![user_id] = s3], user_id, 1)

\* an update_stats call of Spec in which a step fails
FailedUpdate(u) ==
    \/ \E c \in BOOLEAN :
          LET d == [correct |-> c, difficulty |-> "Beginner", subject |-> "Mathematics"]
          IN  /\ UpdateStats(u, "problem_solved", d)
              /\ update_stats_fails(user_stats, u, "problem_solved", d, today)
    \/ /\ UpdateStats(u, "session_completed", [duration |-> 30])
       /\ update_stats_fails(user_stats, u, "session_completed", [duration |-> 30], today)
    \/ /\ UpdateStats(u, "login", <<>>)
       /\ update_stats_fails(user_stats, u, "login", <<>>, today)

\* C12: an update_stats call in which a step fails leaves the user's state
\* exactly as it was before the call.
C12_AllOrNothing ==
    [][\A u \in DOMAIN user_stats : FailedUpdate(u) => user_stats' = user_stats]_vars

-----------------------------------------------------------------------------
(* C13 *)

\* an update_stats call of Spec for user u
UpdateOfSpec(u) ==
    \/ \E c \in BOOLEAN :
          UpdateStats(u, "problem_solved",
                      [correct |-> c, difficulty |-> "Beginner", subject |-> "Mathematics"])
    \/ UpdateStats(u, "session_completed", [duration |-> 30])
    \/ UpdateStats(u, "login", <<>>)

\* C13: when update_stats returns, overall_progress is the average of the
\* four factors computed from the counters of the returned state, the
\* points of achievements unlocked in the call included.
C13_ProgressMatchesCounters ==
    [][\A u \in StatsUsers :
          UpdateOfSpec(u) =>
              FracEq(user_stats'[u].overall_progress,
                     overall_progress_of(user_stats'[u]))]_vars

-----------------------------------------------------------------------------
(* C14 *)

\* the points, in tenths, of the achievements in a list
RECURSIVE PointsOf(_)
PointsOf(ids) ==
    IF ids = <<>> THEN 0
    ELSE ACHIEVEMENTS[Head(ids)] * PointScale + PointsOf(Tail(ids))

\* C14: when update_stats returns, level = floor(sqrt(experience_points / 100)) + 1,
\* that is (level-1)^2 * 100 <= experience_points < level^2 * 100, the
\* points of achievements unlocked in the call included.
C14_LevelMatchesExperience ==
    [][\A u \in StatsUsers :
          UpdateOfSpec(u) =>
              LET l == user_stats'[u].level
                  xp == user_stats'[u].experience_points
              IN  /\ l >= 1
                  /\ (l - 1) * (l - 1) * 100 * PointScale <= xp
                  /\ xp < l * l * 100 * PointScale]_vars

\* level 2 was reached in a call only through the points of the
\* achievements that call unlocked
C14_Witness ==
    \E u \in DOMAIN user_stats :
        /\ user_stats[u].level = 2
        /\ new_achievements # <<>>
        /\ user_stats[u].experience_points >= 100 * PointScale
        /\ user_stats[u].experience_points - PointsOf(new_achievements) < 100 * PointScale

-----------------------------------------------------------------------------
(* C15 *)

\* the starting difficulty the rule gives from a subject's attempt count and
\* accuracy alone
StartFor(attempts, accuracy) ==
    IF attempts < 5 THEN "Beginner"
    ELSE IF FracLtInt(accuracy, 60) THEN "Beginner"
    ELSE IF FracLtInt(accuracy, 80) THEN "Intermediate"
    ELSE "Advanced"

\* C15: a new adaptive session for a subject starts at the difficulty given
\* by that subject's attempt count and accuracy alone; a subject with no
\* recorded attempts starts at Beginner.
C15_StartFromSubjectAlone ==
    [][\A u \in StatsUsers : \A subject \in PracticeSubjects :
          (adaptive_session = NoSession /\ ViewAdaptiveSession(u, subject)) =>
              LET subject_stats == StatsOf(u).subject_stats
              IN  adaptive_session'.current_difficulty =
                      IF subject \in DOMAIN subject_stats
                      THEN StartFor(subject_stats[subject].total_problems,
                                    subject_stats[subject].accuracy)
                      ELSE "Beginner"]_vars

-----------------------------------------------------------------------------
(* SpecRead: two users whose state is read, by EnhancedStatsManager and by  *)
(* app.py, changed by update_stats and reset.  Both readers keep their      *)
(* dicts in st.session_state.user_stats under the user id.                  *)

RdProblems == 3        \* SpecRead: problem_solved events per user

\* app.py get_user_stats: the dict it stores for a user id it does not know
app_initial_stats ==
    [overall_progress |-> Frac(0, 1),
     study_streak |-> 0,
     study_time_today |-> 0,
     achievements |-> 0,
     last_activity_date |-> NoDate,
     total_study_time |-> 0,
     sessions_completed |-> 0,
     problems_solved |-> 0,
     accuracy_rate |-> Frac(60, 1),
     level |-> 1,
     experience_points |-> 0,
     favorite_subjects |-> <<>>,
     weak_areas |-> {},
     badges |-> <<>>]

app_get_user_stats(us, user_id) ==
    IF user_id \notin DOMAIN us
    THEN (user_id :> app_initial_stats) @@ us
    ELSE us

\* the state of a user is read through EnhancedStatsManager.get_user_stats
ReadStats(user_id) ==
    /\ user_stats' = get_user_stats(user_stats, user_id)
    /\ UNCHANGED <<today, day_time_points, new_achievements, adaptive_session, calls>>

\* the state of a user is read through app.py's get_user_stats
AppReadStats(user_id) ==
    /\ user_stats' = app_get_user_stats(user_stats, user_id)
    /\ UNCHANGED <<today, day_time_points, new_achievements, adaptive_session, calls>>

\* "Reset All Stats": del st.session_state.user_stats[user_id]
ResetStats(user_id) ==
    /\ user_id \in DOMAIN user_stats
    /\ user_stats' = [u \in DOMAIN user_stats \ {user_id} |-> user_stats[u]]
    /\ UNCHANGED <<today, day_time_points, new_achievements, adaptive_session, calls>>

Read == \E u \in Users : ReadStats(u)

AppRead == \E u \in Users : AppReadStats(u)

Reset == \E u \in Users : ResetStats(u)

NextRead ==
    \/ Read
    \/ AppRead
    \/ Reset
    \/ ProblemSolved(Users, {"Beginner"}, SubjectInputs, RdProblems)
    \/ AdvanceDay

SpecRead == Init /\ [][NextRead]_vars

-----------------------------------------------------------------------------
(* C16 *)

\* the fields of a state the claim names, at their fresh values
IsFreshState(stats) ==
    /\ stats.problems_solved = 0
    /\ stats.sessions_completed = 0
    /\ stats.achievements = 0
    /\ stats.experience_points = 0
    /\ stats.study_streak = 0
    /\ stats.study_time_today = 0
    /\ stats.total_study_time = 0
    /\ FracEq(stats.overall_progress, Frac(0, 1))
    /\ FracEq(stats.accuracy_rate, Frac(0, 1))
    /\ stats.level = 1
    /\ stats.badges = <<>>
    /\ stats.last_activity_date = NoDate

\* C16: reading the state of a user id with no prior state yields a fresh
\* zero-valued state (counters, points and streaks 0, accuracy_rate 0,
\* level 1, no badges, no date), and reading a state again leaves it as it is.
C16_FreshStateOnRead ==
    [][\A u \in Users :
          (ReadStats(u) \/ AppReadStats(u)) =>
              IF u \in DOMAIN user_stats
              THEN user_stats' = user_stats
              ELSE IsFreshState(user_stats'[u])]_vars

-----------------------------------------------------------------------------
(* SpecUsers: the events and awards of Spec, for two users *)

UsProblems == 2        \* SpecUsers: problem_solved events per user
UsSessions == 1        \* SpecUsers: session_completed events per user

NextUsers ==
    \/ ProblemSolved(Users, {"Beginner"}, SubjectInputs, UsProblems)
    \/ SessionCompleted(Users, DurationInputs, UsSessions)
    \/ Login(Users)
    \/ Award(Users, AwardInputs)

SpecUsers == Init /\ [][NextUsers]_vars

-----------------------------------------------------------------------------
(* C17 *)

\* an update_stats or award_achievement call of SpecUsers made for user a
OperationFor(a) ==
    \/ UpdateOfSpec(a)
    \/ \E id \in AwardInputs : AwardAchievement(a, id)

\* C17: an update_stats or award_achievement call for user a leaves the
\* state of every other user as it was.
C17_OtherUsersUntouched ==
    [][\A a \in Users :
          OperationFor(a) =>
              \A b \in DOMAIN user_stats \ {a} :
                  /\ b \in DOMAIN user_stats'
                  /\ user_stats'[b] = user_stats[b]]_vars

\* both users have state of their own, each with an award and an event
C17_Witness ==
    /\ DOMAIN user_stats = Users
    /\ "first_login" \in Badges("u1")
    /\ "progress_25" \in Badges("u2")
    /\ user_stats["u1"].problems_solved = 2
    /\ user_stats["u2"].problems_solved = 1
    /\ user_stats["u2"].sessions_completed = 1

-----------------------------------------------------------------------------
(* C18 *)

\* one level below d, Beginner being the lowest
OneLevelDown(d) == IF d = "Advanced" THEN "Intermediate" ELSE "Beginner"

\* how many of the last three recorded outcomes of a session are incorrect
RecentIncorrect(session) ==
    LET recent == LastEntries(session.difficulty_history, 3)
    IN  Cardinality({i \in 1..Len(recent) : ~recent[i].correct})

\* C18: an incorrect answer demotes the difficulty one level exactly when
\* at least 2 of the last 3 outcomes, the one just recorded included, are
\* incorrect; otherwise that answer leaves the difficulty unchanged.
\* Stated for sessions that have three outcomes to look at.
C18_DemotedOnTwoOfLastThree ==
    [][\A u \in StatsUsers :
          (SubmitAnswer(u, FALSE) /\ adaptive_session'.problems_attempted >= 3) =>
              adaptive_session'.current_difficulty =
                  IF RecentIncorrect(adaptive_session') >= 2
                  THEN OneLevelDown(adaptive_session.current_difficulty)
                  ELSE adaptive_session.current_difficulty]_vars

-----------------------------------------------------------------------------
(* C19 *)

LastOutcome(session) ==
    session.difficulty_history[Len(session.difficulty_history)].correct

\* C19: for every session state, skipping the problem and answering it
\* incorrectly give the same problems_attempted, the same recorded outcome,
\* the same current_difficulty and the same adaptive_adjustments.
C19_SkipIsIncorrectAnswer ==
    SessionOpen =>
        LET skipped == _skip_adaptive_problem(adaptive_session)
            answered == _process_adaptive_answer(adaptive_session, FALSE)
        IN  /\ skipped.problems_attempted = answered.problems_attempted
            /\ LastOutcome(skipped) = LastOutcome(answered)
            /\ skipped.current_difficulty = answered.current_difficulty
            /\ skipped.adaptive_adjustments = answered.adaptive_adjustments

-----------------------------------------------------------------------------
(* C20 *)

\* C20: adaptive_adjustments goes up by one at exactly the steps at which
\* current_difficulty changes; a promotion at Advanced or a demotion at
\* Beginner changes neither.
C20_AdjustmentsCountChanges ==
    [][(SessionOpen /\ adaptive_session' # NoSession) =>
          adaptive_session'.adaptive_adjustments =
              IF adaptive_session'.current_difficulty # adaptive_session.current_difficulty
              THEN adaptive_session.adaptive_adjustments + 1
              ELSE adaptive_session.adaptive_adjustments]_vars

-----------------------------------------------------------------------------
(* SpecProblem: problem_solved events on a user whose stored study_streak   *)
(* is 0 or has reached the bonus threshold.  update_stats itself never      *)
(* raises study_streak; the handler reads whatever the stored dict holds,   *)
(* and the dict is also written by app.py's update_user_stats (lines        *)
(* 243-247) and by load_user_stats of database/simple_storage.py.           *)

PrProblems == 4        \* SpecProblem: problem_solved events

StoredStreaks == {0, streak_bonus_threshold}

InitProblem ==
    /\ \E s \in StoredStreaks :
           user_stats = [u \in StatsUsers |->
                            [_initialize_user_stats EXCEPT !.study_streak = s]]
    /\ today = 0
    /\ day_time_points = [u \in Users |-> 0]
    /\ new_achievements = <<>>
    /\ adaptive_session = NoSession
    /\ calls = [t \in Threads |-> Idle]

NextProblem == ProblemSolved(StatsUsers, Difficulties, SubjectInputs, PrProblems)

SpecProblem == InitProblem /\ [][NextProblem]_vars

-----------------------------------------------------------------------------
(* C21 *)

\* the points of the claim for one problem, in tenths: base 2, 4 or 6, times
\* 1.2 with `bonus`, times 1.5 with `streak`
ClaimedPoints(d, bonus, streak) ==
    LET base == CASE d = "Beginner" -> 2 [] d = "Intermediate" -> 4 [] d = "Advanced" -> 6
    IN  (base * PointScale * (IF bonus THEN 12 ELSE 10) * (IF streak THEN 15 ELSE 10)) \div 100

\* the counters move as the claim says, total_points and experience_points
\* by the claimed points plus `extra`
ProblemCounted(u, d, c, extra) ==
    LET before == user_stats[u]
        after == user_stats'[u]
        p == ClaimedPoints(d, FracGeqInt(after.accuracy_rate, 80),
                           before.study_streak >= 7)
    IN  /\ after.total_points = before.total_points + p + extra
        /\ after.experience_points = before.experience_points + p + extra
        /\ after.problems_solved = before.problems_solved + 1
        /\ after.problems_correct = before.problems_correct + (IF c THEN 1 ELSE 0)

-----------------------------------------------------------------------------
(* C22 *)

\* the configured points, in tenths, of the registry achievements among ids
RECURSIVE RegistryPoints(_)
RegistryPoints(ids) ==
    IF ids = {} THEN 0
    ELSE LET id == CHOOSE x \in ids : TRUE
         IN  (IF id \in DOMAIN ACHIEVEMENTS THEN ACHIEVEMENTS[id] * PointScale ELSE 0)
                 + RegistryPoints(ids \ {id})

\* the points the handler of an event adds by itself to a counter
HandlerAdds(u, activity_type, data, counter) ==
    LET s1 == [StatsOf(u) EXCEPT !.last_activity_date = today]
    IN  process_activity(s1, activity_type, data, today)[counter] - StatsOf(u)[counter]

\* this step added to both counters, beyond what the handler of the event
\* added, the points of the registry achievements that entered badges
AwardsPaidOnce(u, handler_total, handler_xp) ==
    LET paid == RegistryPoints(Range(user_stats'[u].badges) \ Range(StatsOf(u).badges))
    IN  /\ user_stats'[u].total_points = StatsOf(u).total_points + handler_total + paid
        /\ user_stats'[u].experience_points =
               StatsOf(u).experience_points + handler_xp + paid

\* C22: each achievement unlocked adds its configured points to total_points
\* and to experience_points exactly once: at every step the two counters
\* grow, beyond the points of the event itself, by the points of the
\* registry achievements that step put into badges, so that the points
\* from achievements are always the sum over the registry ids in badges.
C22_AwardPointsOnce ==
    [][\A u \in StatsUsers \cap DOMAIN user_stats' :
          /\ \A c \in BOOLEAN :
                LET d == [correct |-> c, difficulty |-> "Beginner", subject |-> "Mathematics"]
                IN  UpdateStats(u, "problem_solved", d) =>
                        AwardsPaidOnce(u, HandlerAdds(u, "problem_solved", d, "total_points"),
                                       HandlerAdds(u, "problem_solved", d, "experience_points"))
          /\ UpdateStats(u, "session_completed", [duration |-> 30]) => AwardsPaidOnce(u, 0, 0)
          /\ UpdateStats(u, "login", <<>>) => AwardsPaidOnce(u, 0, 0)
          /\ (\E id \in AwardInputs : AwardAchievement(u, id)) => AwardsPaidOnce(u, 0, 0)
          /\ CheckAchievements(u) => AwardsPaidOnce(u, 0, 0)]_vars

\* achievements came in by a direct award and by the check, next to the
\* level_up badge, which is no registry achievement
C22_Witness ==
    \E u \in DOMAIN user_stats :
        /\ {"first_login", "progress_25", "problem_solver_10", "session_milestone_5",
            "level_up"} \subseteq Badges(u)
        /\ user_stats[u].problems_solved = 10

-----------------------------------------------------------------------------
(* C23 *)

\* C23: when an award brings the number of badges to a milestone threshold,
\* the milestone id of that threshold is in badges once award_achievement
\* has returned, and the award reports success.
C23_MilestoneAwarded ==
    [][\A u \in DOMAIN user_stats : \A id \in AwardInputs :
          \A t \in DOMAIN milestone_achievements :
              (/\ AwardAchievement(u, id)
               /\ Len(user_stats[u].badges) < t
               /\ Len(user_stats'[u].badges) >= t)
              => /\ milestone_achievements[t] \in Range(user_stats'[u].badges)
                 /\ award_achievement(user_stats, u, id).ret]_vars

-----------------------------------------------------------------------------
(* C24 *)

\* C24: when update_stats returns, every achievement of the checked table
\* whose threshold holds of the returned problems_solved, study_streak,
\* overall_progress and sessions_completed is in badges.
C24_TableAchievementsHeld ==
    [][\A u \in StatsUsers :
          UpdateOfSpec(u) =>
              \A id \in Range(achievement_checks) :
                  achievement_condition(id, user_stats'[u]) => id \in Range(user_stats'[u].badges)]_vars

\* the call that solved the tenth problem unlocked problem_solver_10
C24_Witness ==
    \E u \in DOMAIN user_stats :
        /\ user_stats[u].problems_solved = 10
        /\ new_achievements = <<"problem_solver_10">>
        /\ {"problem_solver_10", "progress_25"} \subseteq Badges(u)

-----------------------------------------------------------------------------
(* C25 *)

\* C25: a login updates login_streak by the day-gap rule: with the previous
\* activity on day D, a login on D leaves it unchanged, a login on D + 1
\* adds 1, and a login after a longer gap, or a first-ever login, sets it to 1.
C25_LoginStreakGapRule ==
    [][\A u \in StatsUsers :
          UpdateStats(u, "login", <<>>) =>
              LET before == get_user_stats(user_stats, u)[u]
                  D == before.last_activity_date
              IN  user_stats'[u].login_streak =
                      IF D = today THEN before.login_streak
                      ELSE IF D # NoDate /\ D = today - 1 THEN before.login_streak + 1
                      ELSE 1]_vars

-----------------------------------------------------------------------------
(* SpecHistory: the activity history and the recent-session history at     *)
(* their caps.  Elsewhere activity_history stands for the key only; here   *)
(* update_stats is taken together with its lines 100-110, which record the *)
(* event.  The user completes HsSessions sessions, logs in HsLogins times, *)
(* and then raises HsEvents further events of either kind.                 *)

HsSessions == 18     \* SpecHistory: sessions completed first
HsLogins == 79       \* SpecHistory: logins made next
HsEvents == 5        \* SpecHistory: further events

HistoryDurations == {30, 60}

\* record_activity keeping the oldest 100 records
record_activity_keeping_oldest(history, activity_type, now, data) ==
    LET appended == Append(history, [type |-> activity_type, timestamp |-> now, data |-> data])
    IN  IF Len(appended) > 100
        THEN SubSeq(appended, 1, 100)
        ELSE appended

\* lines 100-110: append the record, keep the last 100
record_activity(history, activity_type, now, data) ==
    LET appended == Append(history, [type |-> activity_type, timestamp |-> now, data |-> data])
    IN  IF Len(appended) > 100
        THEN SubSeq(appended, Len(appended) - 99, Len(appended))
        ELSE appended

\* update_stats with the record of lines 100-110 kept; `now` is current_time
update_stats_recording(us, user_id, activity_type, data, day, now) ==
    LET r == update_stats(us, user_id, activity_type, data, day)
        before == get_user_stats(us, user_id)[user_id]
    IN  IF "activity_history" \notin DOMAIN before
        THEN r
        ELSE [r EXCEPT !.user_stats[user_id].activity_history =
                           record_activity(before.activity_history, activity_type, now, data)]

\* datetime.now() of the next call: later than every recorded timestamp
next_tick(stats) ==
    IF stats.activity_history = <<>>
    THEN 1
    ELSE stats.activity_history[Len(stats.activity_history)].timestamp + 1

\* events recorded so far
events_recorded(stats) == next_tick(stats) - 1

\* one whole update_stats call, the event recorded
RecordEvent(user_id, activity_type, data) ==
    LET r == update_stats_recording(user_stats, user_id, activity_type, data, today,
                                    next_tick(StatsOf(user_id)))
    IN  /\ next_tick(StatsOf(user_id)) <= HsSessions + HsLogins + HsEvents
        /\ user_stats' = r.user_stats
        /\ new_achievements' = r.new_achievements
        /\ UNCHANGED <<today, day_time_points, adaptive_session, calls>>

\* the user logs in once the HsSessions sessions are completed
RecordLogin ==
    \E u \in StatsUsers :
        /\ events_recorded(StatsOf(u)) >= HsSessions
        /\ RecordEvent(u, "login", <<>>)

\* the first HsSessions events are sessions of 30 minutes; after the
\* HsLogins logins that follow, sessions of either duration
RecordSession ==
    \E u \in StatsUsers, d \in HistoryDurations :
        /\ \/ events_recorded(StatsOf(u)) < HsSessions /\ d = 30
           \/ events_recorded(StatsOf(u)) >= HsSessions + HsLogins
        /\ RecordEvent(u, "session_completed", [duration |-> d])

NextHistory == RecordLogin \/ RecordSession

SpecHistory == Init /\ [][NextHistory]_vars

(* C26 *)

\* the history after the step is the history before it with the record of
\* the event appended, cut from the front to at most 100 records
HistoryAdvanced(u, activity_type, data) ==
    LET h == StatsOf(u).activity_history
        h2 == user_stats'[u].activity_history
        k == Len(h) + 1 - Len(h2)
    IN  /\ Len(h2) = Min(Len(h) + 1, 100)
        /\ h2[Len(h2)].type = activity_type
        /\ h2[Len(h2)].data = data
        /\ \A i \in 1..(Len(h2) - 1) : h2[i] = h[i + k]

\* the recent sessions after the step are those before it with the session
\* appended, cut from the front to at most 20, and the average is their mean
SessionsAdvanced(u, d) ==
    LET s == StatsOf(u).recent_sessions
        s2 == user_stats'[u].recent_sessions
        k == Len(s) + 1 - Len(s2)
        avg == user_stats'[u].average_session_time
    IN  /\ Len(s2) = Min(Len(s) + 1, 20)
        /\ s2[Len(s2)] = d
        /\ \A i \in 1..(Len(s2) - 1) : s2[i] = s[i + k]
        /\ avg.n * Len(s2) = SumSeq(s2) * avg.d

\* C26: every update_stats call appends its event to the activity history,
\* which keeps the 100 most recent records in the order applied; every
\* completed session is appended to the recent sessions, which keep the last
\* 20, and average_session_time is the mean duration of those.
C26_HistoriesBounded ==
    [][\A u \in StatsUsers :
          /\ RecordEvent(u, "login", <<>>)
                => /\ HistoryAdvanced(u, "login", <<>>)
                   /\ user_stats'[u].recent_sessions = StatsOf(u).recent_sessions
          /\ \A d \in HistoryDurations :
                RecordEvent(u, "session_completed", [duration |-> d])
                    => /\ HistoryAdvanced(u, "session_completed", [duration |-> d])
                       /\ SessionsAdvanced(u, d)]_vars

\* both histories are full and each has evicted its oldest entry
C26_Witness ==
    \E u \in DOMAIN user_stats :
        /\ Len(user_stats[u].activity_history) = 100
        /\ user_stats[u].activity_history[1].timestamp > 1
        /\ Len(user_stats[u].recent_sessions) = 20
        /\ user_stats[u].sessions_completed > 20
        /\ 60 \in Range(user_stats[u].recent_sessions)

-----------------------------------------------------------------------------
(* SpecSubjects: problems in two subjects.  The user first solves SbLong   *)
(* Expert problems of Mathematics correctly, which takes the subject's     *)
(* points past 1000, and then answers SbProblems problems of either        *)
(* subject, correctly or not.                                              *)

SbLong == 105        \* SpecSubjects: problems solved first
SbProblems == 6      \* SpecSubjects: further problems

SubjectNames == {"Mathematics", "Physics"}

SubjectProblem ==
    \E u \in StatsUsers, c \in BOOLEAN, s \in SubjectNames :
        /\ StatsOf(u).problems_solved < SbLong + SbProblems
        /\ StatsOf(u).problems_solved < SbLong => (c /\ s = "Mathematics")
        /\ UpdateStats(u, "problem_solved",
                       [correct |-> c, difficulty |-> "Expert", subject |-> s])

NextSubjects == SubjectProblem

SpecSubjects == Init /\ [][NextSubjects]_vars

(* C27 *)

RECURSIVE SumOver(_, _, _)
\* the sum of one counter over the entries of the given subjects
SumOver(ss, names, field) ==
    IF names = {}
    THEN 0
    ELSE LET s == CHOOSE x \in names : TRUE
         IN  ss[s][field] + SumOver(ss, names \ {s}, field)

\* C27: every subject entry was created from zero counters by the first
\* problem of its subject (so the entries add up to the user's counters), and
\* has correct_problems <= total_problems, accuracy = 100 * correct_problems
\* / total_problems and mastery_progress = min(100, total_points / 10);
\* weak_areas is exactly the subjects with accuracy < 60 and
\* total_problems >= 5.
C27_SubjectEntries ==
    \A u \in DOMAIN user_stats :
        LET ss == user_stats[u].subject_stats
        IN  /\ \A s \in DOMAIN ss :
                  /\ ss[s].total_problems >= 1
                  /\ ss[s].correct_problems <= ss[s].total_problems
                  /\ ss[s].accuracy.n * ss[s].total_problems
                         = 100 * ss[s].correct_problems * ss[s].accuracy.d
                  /\ IF ss[s].total_points >= 1000 * PointScale
                     THEN FracEq(ss[s].mastery_progress, Frac(100, 1))
                     ELSE FracEq(ss[s].mastery_progress,
                                 Frac(ss[s].total_points, 10 * PointScale))
            /\ SumOver(ss, DOMAIN ss, "total_problems") = user_stats[u].problems_solved
            /\ SumOver(ss, DOMAIN ss, "correct_problems") = user_stats[u].problems_correct
            /\ user_stats[u].weak_areas =
                   {s \in DOMAIN ss : /\ ss[s].accuracy.n * 1 < 60 * ss[s].accuracy.d
                                      /\ ss[s].total_problems >= 5}

\* Mathematics is mastered, Physics is a weak area after five wrong answers
C27_Witness ==
    \E u \in DOMAIN user_stats :
        /\ DOMAIN user_stats[u].subject_stats = SubjectNames
        /\ user_stats[u].subject_stats["Mathematics"].total_points > 1000 * PointScale
        /\ user_stats[u].subject_stats["Physics"].total_problems = 5
        /\ user_stats[u].weak_areas = {"Physics"}

-----------------------------------------------------------------------------
(* C28 *)

\* C28: in every reachable user state the achievements counter is the number
\* of entries in badges, whether award_achievement or the level update added
\* the badge.
C28_AchievementsCountBadges ==
    \A u \in DOMAIN user_stats :
        user_stats[u].achievements = Len(user_stats[u].badges)

\* badges added by the level update, by the achievement check and by a
\* direct award
C28_Witness ==
    \E u \in DOMAIN user_stats :
        /\ {"level_up", "problem_solver_10", "first_login"} \subseteq Badges(u)
        /\ user_stats[u].achievements >= 3

-----------------------------------------------------------------------------
(* C29 *)

\* C29: in an adaptive session a correct answer never lowers
\* current_difficulty, and an incorrect answer or a skip never raises it.
C29_DifficultyFollowsOutcome ==
    [][/\ CorrectStep =>
              level_index(adaptive_session'.current_difficulty)
                  >= level_index(adaptive_session.current_difficulty)
       /\ IncorrectStep =>
              level_index(adaptive_session'.current_difficulty)
                  <= level_index(adaptive_session.current_difficulty)]_vars

\* a session that was promoted after correct answers and is back at
\* Beginner after incorrect ones
C29_Witness ==
    /\ SessionOpen
    /\ adaptive_session.adaptive_adjustments >= 2
    /\ adaptive_session.current_difficulty = "Beginner"
    /\ \E i \in 1..Len(adaptive_session.difficulty_history) :
           /\ adaptive_session.difficulty_history[i].correct
           /\ adaptive_session.difficulty_history[i].difficulty = "Intermediate"
    /\ ~LastOutcome(adaptive_session)

-----------------------------------------------------------------------------
(* SpecSession: one adaptive session taken to its tenth problem and past   *)
(* it.  Every script run ends in _adaptive_practice_session's test at line *)
(* 222; the buttons of lines 200-210 are drawn before it in every run.     *)

SsAttempts == 11     \* SpecSession: problems attempted in the session

SessionAnswer ==
    \E u \in StatsUsers, c \in BOOLEAN :
        /\ adaptive_session # NoSession
        /\ adaptive_session.problems_attempted < SsAttempts
        /\ SubmitAnswer(u, c)

SessionSkip ==
    /\ adaptive_session # NoSession
    /\ adaptive_session.problems_attempted < SsAttempts
    /\ SkipProblem

NextSession == StartOrView \/ SessionAnswer \/ SessionSkip

SpecSession == Init /\ [][NextSession]_vars

(* C30 *)

\* C30: a session that has reached 10 attempted problems is recorded once,
\* sessions_completed being 1 for a user with no other session, and
\* problems_attempted never exceeds 10.
C30_SessionRecordedOnce ==
    SessionOpen =>
        /\ adaptive_session.problems_attempted <= 10
        /\ adaptive_session.problems_attempted = 10 =>
               \A u \in StatsUsers : StatsOf(u).sessions_completed = 1

=============================================================================
